---- MODULE Spec2Model ----
(***************************************************************************)
(* Model of the shift-register driver of src/ShiftRegister.c (Raspberry Pi *)
(* Pico, bit-banged clock / latch / data lines).                           *)
(*                                                                         *)
(* A 32-bit unsigned value (uint32_t) is modelled as the set of the        *)
(* positions of its 1-bits, a subset of 0..31: shifts drop the bits that   *)
(* leave the word, as the C operators do.                                  *)
(*                                                                         *)
(* Every gpio_put / gpio_get / sleep_us the code executes is appended to   *)
(* log, the record of the pin events of the API call in progress.          *)
(***************************************************************************)
EXTENDS Integers, Sequences, FiniteSets, TLC

VARIABLES
    heap,       \* <<>> or <<the ShiftRegister struct malloc'ed by ShiftRegisterCreate>>
    returned,   \* what the last ShiftRegisterCreate returned: "none", "NULL", "Register"
    gpio,       \* per pin: initialised?, direction, output level
    call,       \* the API call in progress (or just completed), with its arguments
    pc,         \* position in the code: "idle", a label of a function, or "done"
    stack,      \* return labels of the enclosing function calls
    counter,    \* the loop variable of the transfer in progress (uint8_t counter)
    WriteMask,  \* the local WriteMask of ShiftRegisterWrite / ShiftRegisterReadWrite
    log,        \* pin events of the API call in progress, in program order
    wire,       \* what the data-in pin is wired to: "device" or "loopback"
    parIn,      \* the parallel inputs of the inbound (PISO) device
    inChain,    \* the inbound device's shift chain while the latch is high
    frozen,     \* the parallel inputs as captured at the last latch rising edge
    prev        \* observer: the last transfer completed since a field was assigned

vars == <<heap, returned, gpio, call, pc, stack, counter, WriteMask, log,
          wire, parIn, inChain, frozen, prev>>

(***************************************************************************)
(* Program constants                                                       *)
(***************************************************************************)
SHIFTREGISTER_CLOCKDELAY_US == 5
SHIFTREGISTER_LATCHDELAY_US == 5
SHIFTREGISTER_INPUT == 0
SHIFTREGISTER_OUTPUT == 1
SHIFTREGISTER_HYBRID == 2
MAX_SIZEINOCTETS == 4
GC8BIT_DELAY == 1
WordBits == 32

(***************************************************************************)
(* Bounds of the model                                                     *)
(***************************************************************************)
\* ShiftRegisterCreate is called with Type in 0..MaxTypeArg (uint8_t in the code)
MaxTypeArg == 3
\* ShiftRegisterCreate is called with SizeInOctets in 0..MaxSizeArg (uint8_t in the code)
MaxSizeArg == 5

\* Values the caller stores in OutputBuffer / passes as InitialValue:
\* 0b10000000, and a pattern with bit 31 and bit 0 set that is no palindrome at any width.
Values == { {7}, {0, 4, 13, 22, 31} }
\* Values the device's parallel inputs take
InValues == { {0, 2, 7, 9, 23, 30}, {1, 5, 12, 16, 31} }
\* FillValue arguments of ShiftRegisterFill (uint8_t)
FillValues == {0, 255}

\* The board: the pins the shift-register devices are soldered to.
Wiring == [clock |-> 2, latch |-> 3, din |-> 4, dout |-> 5]
Pins == 0..5
\* (DataInGPIO, DataOutGPIO) arguments: a data pin given as 0 is "not wired".
DataPinArgs == { <<Wiring.din, Wiring.dout>>, <<Wiring.din, 0>>, <<0, Wiring.dout>> }

GPIO_IN == FALSE
GPIO_OUT == TRUE

(***************************************************************************)
(* uint32_t arithmetic on bit sets                                         *)
(***************************************************************************)
Bits == 0..(WordBits - 1)

BitOf(v, i) == IF i \in v THEN 1 ELSE 0

\* v << 1
Shl1(v) == { i + 1 : i \in { j \in v : j + 1 < WordBits } }

\* v >> 1
Shr1(v) == { i - 1 : i \in { j \in v : j > 0 } }

\* v + b for b in {0, 1}, modulo 2^32 (ripple carry)
AddBit(v, b) ==
    IF b = 0 THEN v
    ELSE LET zeros == Bits \ v IN
         IF zeros = {} THEN {}
         ELSE LET j == CHOOSE z \in zeros : \A y \in zeros : z <= y
              IN  (v \ (0..j)) \cup {j}

\* the low n bits of v
Low(v, n) == { i \in v : i < n }

\* The values 1 << ((SizeInOctets*8)-1) can take.  For SizeInOctets in 1..4 the
\* shift count is 7..31; 1 << 31 is 0x80000000 under GCC, which defines signed
\* left shifts into the sign bit.  For SizeInOctets = 0 the shift count is -1,
\* which is undefined: the ARM shifter yields 0, a count taken modulo 32 yields
\* bit 31.
InitialMasksNoMinusOne(size) == { {size * 8} \cap Bits }

InitialMasks(size) ==
    IF size = 0 THEN { {}, {WordBits - 1} } ELSE { {size * 8 - 1} }

(***************************************************************************)
(* The struct, the pins and the devices                                    *)
(***************************************************************************)
R == heap[1]

NoCall == [name |-> "none", Type |-> 0, ClockGPIO |-> 0, DataInGPIO |-> 0,
           DataOutGPIO |-> 0, LatchGPIO |-> 0, InitialValue |-> {},
           SizeInOctets |-> 0, FillValue |-> 0, Out0 |-> {}, In0 |-> {}]

FreshPin == [init |-> FALSE, dir |-> GPIO_IN, level |-> 0]

\* width in bits of the device chains on the board: the board matches the Register
DevBits == IF heap = <<>> THEN 0 ELSE R.SizeInOctets * 8

\* the inbound device's chain after one clock rising edge: it shifts towards
\* its serial output (its most significant stage), a 0 entering at the other end
ShiftChain(c) == Low(Shl1(c), DevBits)

\* the inbound device after pin `pin` is driven to `level`: the latch rising edge
\* captures the parallel inputs, a clock rising edge while the latch is high
\* shifts the chain, the latch falling edge returns the device to load mode
DevChain(pin, level) ==
    IF wire # "device" THEN inChain
    ELSE IF pin = Wiring.latch /\ gpio[pin].level = 0 /\ level = 1
         THEN Low(parIn, DevBits)
    ELSE IF pin = Wiring.latch /\ gpio[pin].level = 1 /\ level = 0
         THEN {}
    ELSE IF pin = Wiring.clock /\ gpio[pin].level = 0 /\ level = 1
            /\ gpio[Wiring.latch].level = 1
         THEN ShiftChain(inChain)
    ELSE inChain

DevFrozen(pin, level) ==
    IF wire = "device" /\ pin = Wiring.latch /\ gpio[pin].level = 0 /\ level = 1
    THEN Low(parIn, DevBits)
    ELSE frozen

\* the level gpio_get reads on `pin`
PinLevel(pin) ==
    IF pin = Wiring.din
    THEN IF wire = "loopback" THEN gpio[Wiring.dout].level
         ELSE IF DevBits = 0 THEN 0
         ELSE IF gpio[Wiring.latch].level = 1 THEN BitOf(inChain, DevBits - 1)
         ELSE BitOf(parIn, DevBits - 1)
    ELSE gpio[pin].level

(***************************************************************************)
(* Pin events                                                              *)
(***************************************************************************)
EvPut(pin, level) == <<"put", pin, level>>
EvGet(pin, level) == <<"get", pin, level>>
EvSleep(us) == <<"sleep", us, 0>>
EvInit(pin) == <<"init", pin, 0>>
EvDir(pin, out) == <<"dir", pin, IF out THEN 1 ELSE 0>>
XferCode == [Read |-> 0, Write |-> 1, ReadWrite |-> 2, Fill |-> 3]
EvBegin(x) == <<"begin", XferCode[x], 0>>
EvEnd(x) == <<"end", XferCode[x], 0>>

\* gpio_put(pin, level), with the device's reaction to the edge
GpioPut(pin, level) ==
    /\ gpio' = [gpio EXCEPT ![pin].level = level]
    /\ inChain' = DevChain(pin, level)
    /\ frozen' = DevFrozen(pin, level)

NoPut == UNCHANGED <<gpio, inChain, frozen>>

\* return to the caller of the current function
Return == /\ pc' = Head(stack)
          /\ stack' = Tail(stack)

Call(label, ret) == /\ pc' = label
                    /\ stack' = <<ret>> \o stack

(***************************************************************************)
(* Initial state: after reset, before any Register is constructed          *)
(***************************************************************************)
InitCommon ==
    /\ heap = <<>>
    /\ returned = "none"
    /\ gpio = [p \in Pins |-> FreshPin]
    /\ call = NoCall
    /\ pc = "idle"
    /\ stack = <<>>
    /\ counter = 0
    /\ WriteMask = {}
    /\ log = <<>>
    /\ parIn \in InValues
    /\ inChain = {}
    /\ frozen = {}
    /\ prev = "none"

Init == InitCommon /\ wire = "device"

(***************************************************************************)
(* ShiftRegisterPulseClock and ShiftRegisterPulseLatch                     *)
(***************************************************************************)
\* gpio_put(ClockGPIO, 1); sleep_us(ClockDelayUS);
PulseClock_66 ==
    /\ pc = "PulseClock_66"
    /\ GpioPut(R.ClockGPIO, 1)
    /\ log' = log \o <<EvPut(R.ClockGPIO, 1), EvSleep(R.ClockDelayUS)>>
    /\ pc' = "PulseClock_68"
    /\ UNCHANGED <<heap, returned, call, stack, counter, WriteMask, wire, parIn, prev>>

\* the pulse without its trailing hold
PulseClock_68_NoHold ==
    /\ pc = "PulseClock_68"
    /\ GpioPut(R.ClockGPIO, 0)
    /\ log' = Append(log, EvPut(R.ClockGPIO, 0))
    /\ Return
    /\ UNCHANGED <<heap, returned, call, counter, WriteMask, wire, parIn, prev>>

\* gpio_put(ClockGPIO, 0); sleep_us(ClockDelayUS); return
PulseClock_68 ==
    /\ pc = "PulseClock_68"
    /\ GpioPut(R.ClockGPIO, 0)
    /\ log' = log \o <<EvPut(R.ClockGPIO, 0), EvSleep(R.ClockDelayUS)>>
    /\ Return
    /\ UNCHANGED <<heap, returned, call, counter, WriteMask, wire, parIn, prev>>

\* gpio_put(LatchGPIO, 1); sleep_us(LatchDelayUS);
PulseLatch_58 ==
    /\ pc = "PulseLatch_58"
    /\ GpioPut(R.LatchGPIO, 1)
    /\ log' = log \o <<EvPut(R.LatchGPIO, 1), EvSleep(R.LatchDelayUS)>>
    /\ pc' = "PulseLatch_60"
    /\ UNCHANGED <<heap, returned, call, stack, counter, WriteMask, wire, parIn, prev>>

\* the pulse that never lowers the latch
PulseLatch_60_NoLower ==
    /\ pc = "PulseLatch_60"
    /\ NoPut
    /\ log' = log
    /\ Return
    /\ UNCHANGED <<heap, returned, call, counter, WriteMask, wire, parIn, prev>>

\* gpio_put(LatchGPIO, 0); return
PulseLatch_60 ==
    /\ pc = "PulseLatch_60"
    /\ GpioPut(R.LatchGPIO, 0)
    /\ log' = Append(log, EvPut(R.LatchGPIO, 0))
    /\ Return
    /\ UNCHANGED <<heap, returned, call, counter, WriteMask, wire, parIn, prev>>

(***************************************************************************)
(* ShiftRegisterWrite                                                      *)
(***************************************************************************)
\* the level driven for the bit under the mask:
\* ((WriteMask & OutputBuffer)>0?1:0), or ?0:1 when InvertOutput
WriteLevelNoInvert(mask, out, invert) ==
    IF (mask \cap out) # {} THEN 1 ELSE 0

\* a level that also depends on what was read before
WriteLevelMixesInput(mask, out, invert) ==
    IF ((mask \cap (out \cup R.InputBuffer)) # {}) # invert THEN 1 ELSE 0

WriteLevel(mask, out, invert) ==
    IF ~invert
    THEN (IF (mask \cap out) # {} THEN 1 ELSE 0)
    ELSE (IF (mask \cap out) # {} THEN 0 ELSE 1)

\* uint32_t WriteMask=(1 << ((SizeInOctets*8)-1)); counter=0
Write_77 ==
    /\ pc = "Write_77"
    /\ WriteMask' \in InitialMasks(R.SizeInOctets)
    /\ counter' = 0
    /\ log' = Append(log, EvBegin("Write"))
    /\ pc' = "Write_78"
    /\ NoPut
    /\ UNCHANGED <<heap, returned, call, stack, wire, parIn, prev>>

\* the loop test, then the body up to the clock pulse, or the latch pulse
WriteLoop(mask, ctr) ==
    /\ WriteMask' = mask
    /\ counter' = ctr
    /\ IF ctr < R.SizeInOctets * 8
       THEN LET lvl == WriteLevel(mask, R.OutputBuffer, R.InvertOutput) IN
            /\ GpioPut(R.DataOutGPIO, lvl)
            /\ log' = Append(log, EvPut(R.DataOutGPIO, lvl))
            /\ Call("PulseClock_66", "Write_85")
       ELSE /\ NoPut
            /\ log' = log
            /\ Call("PulseLatch_58", "Write_88")
    /\ UNCHANGED <<heap, returned, call, wire, parIn, prev>>

Write_78 == pc = "Write_78" /\ WriteLoop(WriteMask, counter)

\* WriteMask=(WriteMask>>1); counter++; then the loop test again
Write_85 == pc = "Write_85" /\ WriteLoop(Shr1(WriteMask), (counter + 1) % 256)

\* a write that also zeroes InputBuffer
Write_88_ClearsInput ==
    /\ pc = "Write_88"
    /\ log' = Append(log, EvEnd("Write"))
    /\ Return
    /\ NoPut
    /\ heap' = <<[R EXCEPT !.InputBuffer = {}]>>
    /\ UNCHANGED <<returned, call, counter, WriteMask, wire, parIn, prev>>

Write_88 ==
    /\ pc = "Write_88"
    /\ log' = Append(log, EvEnd("Write"))
    /\ Return
    /\ NoPut
    /\ UNCHANGED <<heap, returned, call, counter, WriteMask, wire, parIn, prev>>

(***************************************************************************)
(* ShiftRegisterRead                                                       *)
(***************************************************************************)
\* InputBuffer<<=1; InputBuffer+=(gpio_get(DataInGPIO)?1:0);
SampleAddThenShift(buf, lvl) == Shl1(AddBit(buf, lvl))

Sample(buf, lvl) == AddBit(Shl1(buf), lvl)

\* InputBuffer=0; gpio_put(LatchGPIO, 1); counter=0
Read_94_NoReset ==
    /\ pc = "Read_94"
    /\ heap' = heap
    /\ GpioPut(R.LatchGPIO, 1)
    /\ log' = log \o <<EvBegin("Read"), EvPut(R.LatchGPIO, 1)>>
    /\ counter' = 0
    /\ pc' = "Read_99"
    /\ UNCHANGED <<returned, call, stack, WriteMask, wire, parIn, prev>>

Read_94 ==
    /\ pc = "Read_94"
    /\ heap' = <<[R EXCEPT !.InputBuffer = {}]>>
    /\ GpioPut(R.LatchGPIO, 1)
    /\ log' = log \o <<EvBegin("Read"), EvPut(R.LatchGPIO, 1)>>
    /\ counter' = 0
    /\ pc' = "Read_99"
    /\ UNCHANGED <<returned, call, stack, WriteMask, wire, parIn, prev>>

\* the loop test, then the body up to the clock pulse, or the lowering of the latch
ReadLoop(ctr, x, ret) ==
    /\ counter' = ctr
    /\ IF ctr < R.SizeInOctets * 8
       THEN LET lvl == PinLevel(R.DataInGPIO) IN
            /\ heap' = <<[R EXCEPT !.InputBuffer = Sample(R.InputBuffer, lvl)]>>
            /\ log' = Append(log, EvGet(R.DataInGPIO, lvl))
            /\ NoPut
            /\ Call("PulseClock_66", ret)
       ELSE /\ heap' = heap
            /\ GpioPut(R.LatchGPIO, 0)
            /\ log' = log \o <<EvPut(R.LatchGPIO, 0), EvEnd(x)>>
            /\ Return
    /\ UNCHANGED <<returned, call, WriteMask, wire, parIn, prev>>

\* the loop started at 1
Read_99_FromOne == pc = "Read_99" /\ ReadLoop((counter + 1) % 256, "Read", "Read_104")

Read_99 == pc = "Read_99" /\ ReadLoop(counter, "Read", "Read_104")

Read_104 == pc = "Read_104" /\ ReadLoop((counter + 1) % 256, "Read", "Read_104")

(***************************************************************************)
(* ShiftRegisterReadWrite                                                  *)
(***************************************************************************)
ReadWrite_114 ==
    /\ pc = "ReadWrite_114"
    /\ WriteMask' \in InitialMasks(R.SizeInOctets)
    /\ counter' = 0
    /\ log' = Append(log, EvBegin("ReadWrite"))
    /\ pc' = "ReadWrite_115"
    /\ NoPut
    /\ UNCHANGED <<heap, returned, call, stack, wire, parIn, prev>>

\* the first loop: drive the bit, WriteMask=(WriteMask>>1), pulse the clock;
\* after it: gpio_put(LatchGPIO, 1); InputBuffer=0; WriteMask=(1 << ...); counter=0
ReadWriteOut(ctr) ==
    IF ctr < R.SizeInOctets * 8
    THEN LET lvl == WriteLevel(WriteMask, R.OutputBuffer, R.InvertOutput) IN
         /\ GpioPut(R.DataOutGPIO, lvl)
         /\ log' = Append(log, EvPut(R.DataOutGPIO, lvl))
         /\ WriteMask' = Shr1(WriteMask)
         /\ counter' = ctr
         /\ Call("PulseClock_66", "ReadWrite_126")
         /\ UNCHANGED <<heap, returned, call, wire, parIn, prev>>
    ELSE /\ GpioPut(R.LatchGPIO, 1)
         /\ log' = Append(log, EvPut(R.LatchGPIO, 1))
         /\ heap' = <<[R EXCEPT !.InputBuffer = {}]>>
         /\ WriteMask' \in InitialMasks(R.SizeInOctets)
         /\ counter' = 0
         /\ pc' = "ReadWrite_134"
         /\ UNCHANGED <<returned, call, stack, wire, parIn, prev>>

ReadWrite_115 == pc = "ReadWrite_115" /\ ReadWriteOut(counter)

ReadWrite_126 == pc = "ReadWrite_126" /\ ReadWriteOut((counter + 1) % 256)

\* the second loop started at 1
ReadWrite_134_FromOne ==
    pc = "ReadWrite_134" /\ ReadLoop((counter + 1) % 256, "ReadWrite", "ReadWrite_142")

ReadWrite_134 == pc = "ReadWrite_134" /\ ReadLoop(counter, "ReadWrite", "ReadWrite_142")

ReadWrite_142 ==
    pc = "ReadWrite_142" /\ ReadLoop((counter + 1) % 256, "ReadWrite", "ReadWrite_142")

(***************************************************************************)
(* ShiftRegisterFill                                                       *)
(***************************************************************************)
\* (FillValue==0?0:1)
FillLevel(fill, invert) == IF fill = 0 THEN 0 ELSE 1

Fill_153 ==
    /\ pc = "Fill_153"
    /\ counter' = 0
    /\ log' = Append(log, EvBegin("Fill"))
    /\ pc' = "Fill_154"
    /\ NoPut
    /\ UNCHANGED <<heap, returned, call, stack, WriteMask, wire, parIn, prev>>

\* Fill implemented by storing the fill pattern in OutputBuffer
FillLoopClobber(ctr) ==
    /\ counter' = ctr
    /\ heap' = <<[R EXCEPT !.OutputBuffer = IF call.FillValue = 0 THEN {} ELSE Bits]>>
    /\ IF ctr < R.SizeInOctets * 8
       THEN LET lvl == FillLevel(call.FillValue, R.InvertOutput) IN
            /\ GpioPut(R.DataOutGPIO, lvl)
            /\ log' = Append(log, EvPut(R.DataOutGPIO, lvl))
            /\ Call("PulseClock_66", "Fill_157")
       ELSE /\ NoPut
            /\ log' = log
            /\ Call("PulseLatch_58", "Fill_159")
    /\ UNCHANGED <<returned, call, WriteMask, wire, parIn, prev>>

FillLoop(ctr) ==
    /\ counter' = ctr
    /\ IF ctr < R.SizeInOctets * 8
       THEN LET lvl == FillLevel(call.FillValue, R.InvertOutput) IN
            /\ GpioPut(R.DataOutGPIO, lvl)
            /\ log' = Append(log, EvPut(R.DataOutGPIO, lvl))
            /\ Call("PulseClock_66", "Fill_157")
       ELSE /\ NoPut
            /\ log' = log
            /\ Call("PulseLatch_58", "Fill_159")
    /\ UNCHANGED <<heap, returned, call, WriteMask, wire, parIn, prev>>

Fill_154 == pc = "Fill_154" /\ FillLoop(counter)

Fill_157 == pc = "Fill_157" /\ FillLoop((counter + 1) % 256)

Fill_159 ==
    /\ pc = "Fill_159"
    /\ log' = Append(log, EvEnd("Fill"))
    /\ Return
    /\ NoPut
    /\ UNCHANGED <<heap, returned, call, counter, WriteMask, wire, parIn, prev>>

(***************************************************************************)
(* ShiftRegisterUpdate                                                     *)
(***************************************************************************)
\* switch(Register->Type): the transfer's return is Update's return
Update_165 ==
    /\ pc = "Update_165"
    /\ IF R.Type = SHIFTREGISTER_INPUT THEN pc' = "Read_94" /\ stack' = stack
       ELSE IF R.Type = SHIFTREGISTER_OUTPUT THEN pc' = "Write_77" /\ stack' = stack
       ELSE IF R.Type = SHIFTREGISTER_HYBRID THEN pc' = "ReadWrite_114" /\ stack' = stack
       ELSE Return
    /\ NoPut
    /\ UNCHANGED <<heap, returned, call, counter, WriteMask, log, wire, parIn, prev>>

(***************************************************************************)
(* ShiftRegisterCreate                                                     *)
(***************************************************************************)
\* if(SizeInOctets>MAX_SIZEINOCTETS)
SizeRejectedAtMax(size) == size >= MAX_SIZEINOCTETS

SizeRejected(size) == size > MAX_SIZEINOCTETS

\* gpio_init(pin): the SDK makes the pin an input with output level 0
InitPin(pin, out) ==
    /\ gpio' = [gpio EXCEPT ![pin] = [init |-> TRUE, dir |-> out, level |-> 0]]
    /\ inChain' = DevChain(pin, 0)
    /\ frozen' = DevFrozen(pin, 0)

CreateCall(types, sizes, pinargs) ==
    /\ pc = "idle"
    /\ returned # "Register"
    /\ \E t \in types, s \in sizes, v \in Values, p \in pinargs :
          call' = [NoCall EXCEPT !.name = "Create", !.Type = t,
                                 !.ClockGPIO = Wiring.clock, !.DataInGPIO = p[1],
                                 !.DataOutGPIO = p[2], !.LatchGPIO = Wiring.latch,
                                 !.InitialValue = v, !.SizeInOctets = s]
    /\ pc' = "Create_183"
    /\ stack' = <<"done">>
    /\ log' = <<>>
    /\ returned' = "none"
    /\ NoPut
    /\ UNCHANGED <<heap, counter, WriteMask, wire, parIn, prev>>

\* the width check made after the clock pin was set up
Create_183_LateCheck ==
    /\ pc = "Create_183"
    /\ IF SizeRejected(call.SizeInOctets)
       THEN /\ returned' = "NULL"
            /\ Return
            /\ InitPin(call.ClockGPIO, GPIO_OUT)
            /\ log' = log \o <<EvInit(call.ClockGPIO), EvDir(call.ClockGPIO, GPIO_OUT)>>
       ELSE /\ returned' = returned
            /\ pc' = "Create_187"
            /\ stack' = stack
            /\ NoPut
            /\ log' = log
    /\ UNCHANGED <<heap, call, counter, WriteMask, wire, parIn, prev>>

\* if(SizeInOctets>MAX_SIZEINOCTETS) return(NULL);
Create_183 ==
    /\ pc = "Create_183"
    /\ IF SizeRejected(call.SizeInOctets)
       THEN returned' = "NULL" /\ Return
       ELSE returned' = returned /\ pc' = "Create_187" /\ stack' = stack
    /\ NoPut
    /\ UNCHANGED <<heap, call, counter, WriteMask, log, wire, parIn, prev>>

\* gpio_init(ClockGPIO); gpio_set_dir(ClockGPIO, GPIO_OUT);
Create_187 ==
    /\ pc = "Create_187"
    /\ InitPin(call.ClockGPIO, GPIO_OUT)
    /\ log' = log \o <<EvInit(call.ClockGPIO), EvDir(call.ClockGPIO, GPIO_OUT)>>
    /\ pc' = "Create_189"
    /\ UNCHANGED <<heap, returned, call, stack, counter, WriteMask, wire, parIn, prev>>

\* if(DataInGPIO!=0) { gpio_init(DataInGPIO); gpio_set_dir(DataInGPIO, GPIO_IN); }
Create_189 ==
    /\ pc = "Create_189"
    /\ IF call.DataInGPIO # 0
       THEN /\ InitPin(call.DataInGPIO, GPIO_IN)
            /\ log' = log \o <<EvInit(call.DataInGPIO), EvDir(call.DataInGPIO, GPIO_IN)>>
       ELSE NoPut /\ log' = log
    /\ pc' = "Create_194"
    /\ UNCHANGED <<heap, returned, call, stack, counter, WriteMask, wire, parIn, prev>>

\* if(DataOutGPIO!=0) { gpio_init; gpio_set_dir(.., GPIO_OUT); gpio_put(.., 0); }
Create_194 ==
    /\ pc = "Create_194"
    /\ IF call.DataOutGPIO # 0
       THEN /\ InitPin(call.DataOutGPIO, GPIO_OUT)
            /\ log' = log \o <<EvInit(call.DataOutGPIO), EvDir(call.DataOutGPIO, GPIO_OUT),
                               EvPut(call.DataOutGPIO, 0)>>
       ELSE NoPut /\ log' = log
    /\ pc' = "Create_200"
    /\ UNCHANGED <<heap, returned, call, stack, counter, WriteMask, wire, parIn, prev>>

\* the latch pin set up like the clock pin, without the gpio_put
Create_200_NoPut ==
    /\ pc = "Create_200"
    /\ InitPin(call.LatchGPIO, GPIO_OUT)
    /\ log' = log \o <<EvInit(call.LatchGPIO), EvDir(call.LatchGPIO, GPIO_OUT)>>
    /\ pc' = "Create_205"
    /\ UNCHANGED <<heap, returned, call, stack, counter, WriteMask, wire, parIn, prev>>

\* gpio_init(LatchGPIO); gpio_set_dir(LatchGPIO, GPIO_OUT); gpio_put(LatchGPIO, 0);
Create_200 ==
    /\ pc = "Create_200"
    /\ InitPin(call.LatchGPIO, GPIO_OUT)
    /\ log' = log \o <<EvInit(call.LatchGPIO), EvDir(call.LatchGPIO, GPIO_OUT),
                       EvPut(call.LatchGPIO, 0)>>
    /\ pc' = "Create_205"
    /\ UNCHANGED <<heap, returned, call, stack, counter, WriteMask, wire, parIn, prev>>

\* the struct filled with the game controller's delays
NewRegisterShortDelays(c) ==
    [Type |-> c.Type, ClockGPIO |-> c.ClockGPIO, DataInGPIO |-> c.DataInGPIO,
     DataOutGPIO |-> c.DataOutGPIO, LatchGPIO |-> c.LatchGPIO,
     InputBuffer |-> {}, OutputBuffer |-> c.InitialValue,
     SizeInOctets |-> c.SizeInOctets,
     ClockDelayUS |-> GC8BIT_DELAY,
     LatchDelayUS |-> GC8BIT_DELAY,
     InvertOutput |-> FALSE]

\* the struct as lines 205-216 fill it
NewRegister(c) ==
    [Type |-> c.Type, ClockGPIO |-> c.ClockGPIO, DataInGPIO |-> c.DataInGPIO,
     DataOutGPIO |-> c.DataOutGPIO, LatchGPIO |-> c.LatchGPIO,
     InputBuffer |-> {}, OutputBuffer |-> c.InitialValue,
     SizeInOctets |-> c.SizeInOctets,
     ClockDelayUS |-> SHIFTREGISTER_CLOCKDELAY_US,
     LatchDelayUS |-> SHIFTREGISTER_LATCHDELAY_US,
     InvertOutput |-> FALSE]

\* Register=malloc(..); Register->.. = ..; ShiftRegisterUpdate(Register);
Create_205 ==
    /\ pc = "Create_205"
    /\ heap' = <<NewRegister(call)>>
    /\ Call("Update_165", "Create_218")
    /\ NoPut
    /\ UNCHANGED <<returned, call, counter, WriteMask, log, wire, parIn, prev>>

\* return(Register);
Create_218 ==
    /\ pc = "Create_218"
    /\ returned' = "Register"
    /\ Return
    /\ NoPut
    /\ UNCHANGED <<heap, call, counter, WriteMask, log, wire, parIn, prev>>

(***************************************************************************)
(* GC8BitInit                                                              *)
(***************************************************************************)
\* Controller=ShiftRegisterCreate(SHIFTREGISTER_INPUT,ClockGPIO,DataInGPIO,0,LatchGPIO,0,1);
GC8BitInitCall ==
    /\ pc = "idle"
    /\ returned # "Register"
    /\ call' = [NoCall EXCEPT !.name = "GC8BitInit", !.Type = SHIFTREGISTER_INPUT,
                              !.ClockGPIO = Wiring.clock, !.DataInGPIO = Wiring.din,
                              !.DataOutGPIO = 0, !.LatchGPIO = Wiring.latch,
                              !.InitialValue = {}, !.SizeInOctets = 1]
    /\ pc' = "Create_183"
    /\ stack' = <<"GC8BitInit_67", "done">>
    /\ log' = <<>>
    /\ returned' = "none"
    /\ NoPut
    /\ UNCHANGED <<heap, counter, WriteMask, wire, parIn, prev>>

\* Controller->ClockDelayUS=GC8BIT_DELAY; Controller->LatchDelayUS=GC8BIT_DELAY; return
GC8BitInit_67 ==
    /\ pc = "GC8BitInit_67"
    /\ heap' = <<[R EXCEPT !.ClockDelayUS = GC8BIT_DELAY,
                           !.LatchDelayUS = GC8BIT_DELAY]>>
    /\ Return
    /\ NoPut
    /\ UNCHANGED <<returned, call, counter, WriteMask, log, wire, parIn, prev>>

(***************************************************************************)
(* The caller                                                              *)
(***************************************************************************)
ApiCall(name, label, fill) ==
    /\ pc = "idle"
    /\ returned = "Register"
    /\ call' = [NoCall EXCEPT !.name = name, !.FillValue = fill,
                              !.Out0 = R.OutputBuffer, !.In0 = R.InputBuffer]
    /\ pc' = label
    /\ stack' = <<"done">>
    /\ log' = <<>>
    /\ NoPut
    /\ UNCHANGED <<heap, returned, counter, WriteMask, wire, parIn, prev>>

WriteCall == ApiCall("Write", "Write_77", 0)
ReadCall == ApiCall("Read", "Read_94", 0)
ReadWriteCall == ApiCall("ReadWrite", "ReadWrite_114", 0)
FillCall == \E f \in FillValues : ApiCall("Fill", "Fill_153", f)
UpdateCall == ApiCall("Update", "Update_165", 0)

\* Register->OutputBuffer = v;
SetOutputBuffer ==
    /\ pc = "idle"
    /\ returned = "Register"
    /\ \E v \in Values \ {R.OutputBuffer} : heap' = <<[R EXCEPT !.OutputBuffer = v]>>
    /\ prev' = "none"
    /\ NoPut
    /\ UNCHANGED <<returned, call, pc, stack, counter, WriteMask, log, wire, parIn>>

\* Register->InvertOutput = b;
SetInvertOutput ==
    /\ pc = "idle"
    /\ returned = "Register"
    /\ heap' = <<[R EXCEPT !.InvertOutput = ~R.InvertOutput]>>
    /\ prev' = "none"
    /\ NoPut
    /\ UNCHANGED <<returned, call, pc, stack, counter, WriteMask, log, wire, parIn>>

\* the transfer the completed call ran, "none" when it ran none
XferOf(l) ==
    LET b == SelectSeq(l, LAMBDA e : e[1] = "begin") IN
    IF b = <<>> THEN "none"
    ELSE CHOOSE x \in DOMAIN XferCode : XferCode[x] = b[Len(b)][2]

\* the call has returned: the caller goes on
Complete(observe) ==
    /\ pc = "done"
    /\ pc' = "idle"
    /\ call' = NoCall
    /\ log' = <<>>
    /\ counter' = 0
    /\ WriteMask' = {}
    /\ frozen' = {}
    /\ prev' = IF observe THEN XferOf(log) ELSE "none"
    /\ UNCHANGED <<heap, returned, gpio, stack, wire, parIn, inChain>>

\* the device's parallel inputs change
EnvChange ==
    /\ wire = "device"
    /\ \E v \in InValues \ {parIn} : parIn' = v
    /\ UNCHANGED <<heap, returned, gpio, call, pc, stack, counter, WriteMask, log,
                   wire, inChain, frozen, prev>>

PulseSteps == PulseClock_66 \/ PulseClock_68 \/ PulseLatch_58 \/ PulseLatch_60
WriteSteps == Write_77 \/ Write_78 \/ Write_85 \/ Write_88
ReadSteps == Read_94 \/ Read_99 \/ Read_104
ReadWriteSteps == ReadWrite_114 \/ ReadWrite_115 \/ ReadWrite_126
                     \/ ReadWrite_134 \/ ReadWrite_142
FillSteps == Fill_153 \/ Fill_154 \/ Fill_157 \/ Fill_159
CreateSteps == Create_183 \/ Create_187 \/ Create_189 \/ Create_194
                  \/ Create_200 \/ Create_205 \/ Create_218

(***************************************************************************)
(* Spec: construction with every shape of argument, then polling by        *)
(* ShiftRegisterUpdate                                                     *)
(***************************************************************************)
Next ==
    \/ CreateCall(0..MaxTypeArg, 0..MaxSizeArg, DataPinArgs)
    \/ GC8BitInitCall
    \/ GC8BitInit_67
    \/ CreateSteps
    \/ UpdateCall
    \/ Update_165
    \/ WriteSteps \/ ReadSteps \/ ReadWriteSteps \/ PulseSteps
    \/ Complete(FALSE)
    \/ EnvChange

Spec == Init /\ [][Next]_vars

(***************************************************************************)
(* SpecOps: a hybrid board (both chains wired), constructed with a valid   *)
(* width, on which the caller assigns fields and calls every transfer      *)
(***************************************************************************)
InitOps == InitCommon /\ wire \in {"device", "loopback"}

NextOps ==
    \/ CreateCall({SHIFTREGISTER_HYBRID}, 1..MAX_SIZEINOCTETS,
                  {<<Wiring.din, Wiring.dout>>})
    \/ CreateSteps
    \/ WriteCall \/ ReadCall \/ ReadWriteCall \/ FillCall \/ UpdateCall
    \/ SetOutputBuffer \/ SetInvertOutput
    \/ Update_165
    \/ WriteSteps \/ ReadSteps \/ ReadWriteSteps \/ FillSteps \/ PulseSteps
    \/ Complete(TRUE)
    \/ EnvChange

SpecOps == InitOps /\ [][NextOps]_vars

(***************************************************************************)
(* Reading the log                                                         *)
(***************************************************************************)
Puts(l) == SelectSeq(l, LAMBDA e : e[1] = "put")
Gets(l) == SelectSeq(l, LAMBDA e : e[1] = "get")
PutsOn(l, pin) == SelectSeq(l, LAMBDA e : e[1] = "put" /\ e[2] = pin)
Count(l, kind) == Len(SelectSeq(l, LAMBDA e : e[1] = kind))

\* the events of the transfer the call ran, from its first event on
XferLog ==
    LET i == CHOOSE j \in 1..Len(log) : log[j][1] = "begin"
    IN  SubSeq(log, i, Len(log))

\* the call has returned and ran transfer x
Ran(x) == pc = "done" /\ XferOf(log) = x

WidthBits == R.SizeInOctets * 8

\* OutputBuffer as it was when the call was made
PreOut == IF call.name = "Create" THEN call.InitialValue ELSE call.Out0

\* the pin writes p are: n times (data-out level lv(k), clock high, clock low),
\* then latch high, latch low, and nothing else
DriveClockLatch(p, n, lv(_)) ==
    /\ Len(p) = 3 * n + 2
    /\ \A k \in 0..(n - 1) :
          /\ p[3 * k + 1] = EvPut(R.DataOutGPIO, lv(k))
          /\ p[3 * k + 2] = EvPut(R.ClockGPIO, 1)
          /\ p[3 * k + 3] = EvPut(R.ClockGPIO, 0)
    /\ p[3 * n + 1] = EvPut(R.LatchGPIO, 1)
    /\ p[3 * n + 2] = EvPut(R.LatchGPIO, 0)

\* The outbound (SIPO) device, fed the pin writes of the transfer just run: its
\* chain takes the data-out level at every clock rising edge, and its parallel
\* outputs take the chain at the latch rising edge.  The lines start low, as
\* every call leaves them.
LevelBefore(p, i, pin) ==
    LET s == { j \in 1..(i - 1) : p[j][2] = pin } IN
    IF s = {} THEN 0 ELSE p[CHOOSE j \in s : \A k \in s : k <= j][3]

Rises(p, i, pin) == p[i] = EvPut(pin, 1) /\ LevelBefore(p, i, pin) = 0

\* the device's parallel outputs after the transfer, and whether the latch rose
Sipo ==
    LET p == Puts(XferLog)
        rises == { i \in 1..Len(p) : Rises(p, i, Wiring.latch) }
    IN  IF rises = {} THEN [latched |-> FALSE, out |-> {}]
        ELSE LET at == CHOOSE i \in rises : \A k \in rises : k <= i
                 idx == [i \in 1..Len(p) |-> i]
                 edges == SelectSeq(idx, LAMBDA i : i < at /\ Rises(p, i, Wiring.clock))
                 n == Len(edges)
             IN  [latched |-> TRUE,
                  out |-> { j \in 0..(WidthBits - 1) :
                              j < n /\ LevelBefore(p, edges[n - j], Wiring.dout) = 1 }]

(***************************************************************************)
(* Claims                                                                  *)
(***************************************************************************)

\* C1: with InvertOutput false, a completed ShiftRegisterWrite has written the
\* pins exactly so: for k = 0..8W-1 the data-out line at the level of bit
\* 8W-1-k of OutputBuffer, then the clock high, then the clock low; after the
\* last clock pulse the latch high, then the latch low; and nothing else.
C1_WriteMsbFirst ==
    (Ran("Write") /\ ~R.InvertOutput) =>
        DriveClockLatch(Puts(XferLog), WidthBits,
                        LAMBDA k : BitOf(PreOut, WidthBits - 1 - k))

C1_Witness ==
    /\ Ran("Write") /\ ~R.InvertOutput
    /\ R.SizeInOctets = 4
    /\ PreOut = {0, 4, 13, 22, 31}
    /\ Puts(XferLog)[1] = EvPut(R.DataOutGPIO, 1)

\* C2: with InvertOutput true, a completed ShiftRegisterWrite or
\* ShiftRegisterReadWrite has driven the data-out line 8W times, the k-th
\* level being the complement of bit 8W-1-k of OutputBuffer, and OutputBuffer
\* is what it was before the transfer.
C2_InvertedOutput ==
    ((Ran("Write") \/ Ran("ReadWrite")) /\ R.InvertOutput) =>
        LET d == PutsOn(XferLog, R.DataOutGPIO) IN
        /\ Len(d) = WidthBits
        /\ \A k \in 0..(WidthBits - 1) :
              d[k + 1][3] = 1 - BitOf(PreOut, WidthBits - 1 - k)
        /\ R.OutputBuffer = PreOut

C2_Witness ==
    /\ Ran("ReadWrite") /\ R.InvertOutput
    /\ R.SizeInOctets = 2
    /\ PreOut = {0, 4, 13, 22, 31}

\* C3: a completed ShiftRegisterRead has sampled data-in 8W times, and
\* InputBuffer holds the samples most significant first: bit 8W-1-k is the
\* k-th sample, and no bit at or above 8W is set, whatever InputBuffer held.
C3_ReadMsbFirst ==
    Ran("Read") =>
        LET g == Gets(XferLog) IN
        /\ Len(g) = WidthBits
        /\ \A k \in 0..(WidthBits - 1) :
              BitOf(R.InputBuffer, WidthBits - 1 - k) = g[k + 1][3]
        /\ \A i \in R.InputBuffer : i < WidthBits

C3_Witness ==
    /\ Ran("Read") /\ call.name = "Read"
    /\ R.SizeInOctets = 1
    /\ call.In0 = {0, 2, 7}
    /\ R.InputBuffer = {1, 5}

\* C4 as stated: with data-out wired to data-in, a read transfer that follows a
\* write transfer of OutputBuffer = V < 2^(8W) leaves InputBuffer = V.
C4_Original ==
    (Ran("Read") /\ call.name = "Read" /\ wire = "loopback" /\ prev = "Write"
       /\ R.OutputBuffer = Low(R.OutputBuffer, WidthBits)) =>
        R.InputBuffer = R.OutputBuffer

\* C4 as amended: with data-out wired to data-in, a read transfer that follows a
\* write transfer samples 8W times the level the write drove last, that of
\* bit 0 of OutputBuffer (complemented when InvertOutput): InputBuffer is
\* 2^(8W)-1 when that level is high and 0 when it is low.
C4_LoopbackReadsLastLevel ==
    (Ran("Read") /\ call.name = "Read" /\ wire = "loopback" /\ prev = "Write") =>
        R.InputBuffer = IF (0 \in R.OutputBuffer) # R.InvertOutput
                        THEN 0..(WidthBits - 1) ELSE {}

C4_Witness ==
    /\ Ran("Read") /\ call.name = "Read" /\ wire = "loopback" /\ prev = "Write"
    /\ R.OutputBuffer = {7} /\ ~R.InvertOutput /\ R.SizeInOctets = 1
    /\ R.InputBuffer = {}

\* C5 as stated: after a hybrid transfer the device's parallel outputs equal
\* the OutputBuffer of before the cycle (its 8W bits), and InputBuffer equals
\* the parallel inputs as they were when the latch rose.
C5_Original ==
    (Ran("ReadWrite") /\ wire = "device") =>
        /\ Sipo.latched
        /\ Sipo.out = Low(PreOut, WidthBits)
        /\ R.InputBuffer = frozen

\* C5 as amended: after a hybrid transfer the device's parallel outputs equal
\* the low 8W bits of the OutputBuffer of before the cycle when InvertOutput
\* is false and their complement when it is true, and InputBuffer equals the
\* parallel inputs as they were when the latch rose.
C5_HybridCommitsAndCaptures ==
    (Ran("ReadWrite") /\ wire = "device") =>
        /\ Sipo.latched
        /\ Sipo.out = IF R.InvertOutput
                      THEN (0..(WidthBits - 1)) \ PreOut
                      ELSE Low(PreOut, WidthBits)
        /\ R.InputBuffer = frozen

\* the parallel inputs changed after the latch rose, and the outputs are inverted
C5_Witness ==
    /\ Ran("ReadWrite") /\ wire = "device"
    /\ R.SizeInOctets = 3 /\ R.InvertOutput
    /\ frozen # Low(parIn, WidthBits)
    /\ R.InputBuffer = frozen

\* C6 as stated: a completed ShiftRegisterFill has driven 8W data-out levels,
\* each followed by one clock pulse, then one latch pulse; the level is low for
\* Fill(0) and high for Fill(nonzero) when InvertOutput is false, and the
\* opposite when InvertOutput is true.
C6_FillHonoursInvert ==
    Ran("Fill") =>
        DriveClockLatch(Puts(XferLog), WidthBits,
                        LAMBDA k : IF (call.FillValue # 0) # R.InvertOutput THEN 1 ELSE 0)

\* C7: ShiftRegisterCreate returns a Register for SizeInOctets in 1..4 and NULL
\* for SizeInOctets of 5 and more, whatever the Type and the pins.
C7_CreateWidthCheck ==
    (pc = "done" /\ call.name = "Create") =>
        /\ call.SizeInOctets \in 1..4 => (returned = "Register" /\ heap # <<>>)
        /\ call.SizeInOctets >= 5 => returned = "NULL"

C7_Witness ==
    /\ pc = "done" /\ call.name = "Create"
    /\ call.SizeInOctets = 5
    /\ returned = "NULL"

\* C8 as stated: a ShiftRegisterCreate that returns a Register has run exactly
\* one transfer, begun after the pins were configured and completed before the
\* return, whatever the Type it was given (here for the widths 1..4).
C8_CreateRunsOneTransfer ==
    (pc = "done" /\ call.name = "Create" /\ returned = "Register"
       /\ call.SizeInOctets \in 1..MAX_SIZEINOCTETS) =>
        /\ Count(log, "begin") = 1
        /\ Count(log, "end") = 1
        /\ \A i, j \in 1..Len(log) :
              (log[i][1] \in {"init", "dir"} /\ log[j][1] = "begin") => i < j

\* C9 as stated: a Register that construction has returned has SizeInOctets
\* in 1..4 (here for the three modes the driver defines).
C9_WidthInRange ==
    (returned = "Register"
       /\ R.Type \in {SHIFTREGISTER_INPUT, SHIFTREGISTER_OUTPUT, SHIFTREGISTER_HYBRID}) =>
        R.SizeInOctets \in 1..MAX_SIZEINOCTETS

\* C10: no step of ShiftRegisterFill changes OutputBuffer or InputBuffer, and a
\* ShiftRegisterWrite that follows Fill calls drives the bits of the
\* OutputBuffer of before them (complemented when InvertOutput).
C10_FillKeepsBuffers ==
    [][ /\ (call.name = "Fill" /\ pc # "done") =>
              /\ heap'[1].OutputBuffer = call.Out0
              /\ heap'[1].InputBuffer = call.In0
        /\ (Ran("Write") /\ prev = "Fill") =>
              LET d == PutsOn(XferLog, R.DataOutGPIO) IN
              /\ Len(d) = WidthBits
              /\ \A k \in 0..(WidthBits - 1) :
                    d[k + 1][3] = IF ((WidthBits - 1 - k) \in R.OutputBuffer)
                                       # R.InvertOutput THEN 1 ELSE 0
      ]_vars

C10_Witness ==
    /\ Ran("Write") /\ prev = "Fill"
    /\ R.OutputBuffer = {0, 4, 13, 22, 31}
    /\ R.SizeInOctets = 4

\* the pin writes and pin reads of the transfer just run, in program order
PinEvents == SelectSeq(XferLog, LAMBDA e : e[1] \in {"put", "get"})

\* e[from+1 .. from+3n] is n times (an event of `kind` on `pin`, clock high, clock low)
BitFrames(e, from, n, kind, pin) ==
    \A k \in 0..(n - 1) :
        /\ e[from + 3 * k + 1][1] = kind
        /\ e[from + 3 * k + 1][2] = pin
        /\ e[from + 3 * k + 2] = EvPut(R.ClockGPIO, 1)
        /\ e[from + 3 * k + 3] = EvPut(R.ClockGPIO, 0)

\* C11: a completed ShiftRegisterReadWrite has, in this order and with nothing
\* else on the pins: 8W times (data-out driven, clock pulse), the latch
\* raised, 8W times (data-in sampled, clock pulse), the latch lowered; that is
\* 16W clock pulses, every drive before the latch rises and every sample
\* after it.  When the first sample is about to be taken the latch is high
\* and InputBuffer is zero.
C11_HybridOrder ==
    /\ Ran("ReadWrite") =>
          LET e == PinEvents
              n == WidthBits
          IN  /\ Len(e) = 6 * n + 2
              /\ BitFrames(e, 0, n, "put", R.DataOutGPIO)
              /\ e[3 * n + 1] = EvPut(R.LatchGPIO, 1)
              /\ BitFrames(e, 3 * n + 1, n, "get", R.DataInGPIO)
              /\ e[6 * n + 2] = EvPut(R.LatchGPIO, 0)
              /\ Len(SelectSeq(e, LAMBDA x : x = EvPut(R.ClockGPIO, 1))) = 2 * n
    /\ pc = "ReadWrite_134" =>
          /\ R.InputBuffer = {}
          /\ gpio[R.LatchGPIO].level = 1

C11_Witness ==
    /\ Ran("ReadWrite") /\ call.name = "ReadWrite"
    /\ R.SizeInOctets = 4
    /\ Len(PinEvents) = 194
    /\ call.In0 # {}

\* C12: a completed ShiftRegisterRead has, in this order and with nothing else
\* on the pins: the latch raised, 8W times (data-in sampled, clock pulse), the
\* latch lowered.  Whenever a sample is about to be taken the clock is low and
\* the latch is high.
C12_ReadOrder ==
    /\ Ran("Read") =>
          LET e == PinEvents
              n == WidthBits
          IN  /\ Len(e) = 3 * n + 2
              /\ e[1] = EvPut(R.LatchGPIO, 1)
              /\ BitFrames(e, 1, n, "get", R.DataInGPIO)
              /\ e[3 * n + 2] = EvPut(R.LatchGPIO, 0)
    /\ pc \in {"Read_99", "Read_104"} =>
          /\ gpio[R.ClockGPIO].level = 0
          /\ gpio[R.LatchGPIO].level = 1

C12_Witness ==
    /\ Ran("Read") /\ call.name = "Read"
    /\ R.SizeInOctets = 3
    /\ PinEvents[2] = EvGet(R.DataInGPIO, 1)
    /\ Count(XferLog, "get") = 24

\* what ShiftRegisterCreate's pin setup did to pin p, in program order
SetupOn(p) == SelectSeq(log, LAMBDA e : e[1] \in {"init", "dir", "put"} /\ e[2] = p)

\* the pin setup is over and the initial transfer has not begun
SetupDone == call.name = "Create" /\ pc = "Create_205"

OutputPins == {call.ClockGPIO, call.LatchGPIO} \cup ({call.DataOutGPIO} \ {0})

IsOutputLow(p) == gpio[p] = [init |-> TRUE, dir |-> GPIO_OUT, level |-> 0]

DataInSetup ==
    call.DataInGPIO # 0 =>
        /\ gpio[call.DataInGPIO].init /\ gpio[call.DataInGPIO].dir = GPIO_IN
        /\ SetupOn(call.DataInGPIO) = <<EvInit(call.DataInGPIO),
                                        EvDir(call.DataInGPIO, GPIO_IN)>>

ZeroPinUntouched ==
    0 \in {call.DataInGPIO, call.DataOutGPIO} =>
        gpio[0] = FreshPin /\ SetupOn(0) = <<>>

\* C13 as stated: when the pin setup of a successful ShiftRegisterCreate is
\* over, each of the clock pin, the latch pin and a non-zero data-out pin is an
\* output that a gpio_put drove low, a non-zero data-in pin is an input, and
\* pin 0 given as a data pin is untouched.
C13_Original ==
    SetupDone =>
        /\ \A p \in OutputPins :
              /\ IsOutputLow(p)
              /\ SetupOn(p) = <<EvInit(p), EvDir(p, GPIO_OUT), EvPut(p, 0)>>
        /\ DataInSetup
        /\ ZeroPinUntouched

\* C13: when the pin setup of a successful ShiftRegisterCreate is over, the
\* latch pin and a non-zero data-out pin are outputs that a gpio_put drove
\* low; the clock pin is an output whose level is low as gpio_init left it,
\* no gpio_put having been made on it; a non-zero data-in pin is an input, and
\* pin 0 given as a data pin is untouched.
C13_PinSetup ==
    SetupDone =>
        /\ \A p \in OutputPins \ {call.ClockGPIO} :
              /\ IsOutputLow(p)
              /\ SetupOn(p) = <<EvInit(p), EvDir(p, GPIO_OUT), EvPut(p, 0)>>
        /\ IsOutputLow(call.ClockGPIO)
        /\ SetupOn(call.ClockGPIO) = <<EvInit(call.ClockGPIO),
                                       EvDir(call.ClockGPIO, GPIO_OUT)>>
        /\ DataInSetup
        /\ ZeroPinUntouched

C13_Witness ==
    /\ SetupDone
    /\ call.DataOutGPIO = 0 /\ call.DataInGPIO # 0
    /\ call.Type = SHIFTREGISTER_INPUT
    /\ Len(log) = 7

\* the Register's fields other than InputBuffer
Config(r) == [r EXCEPT !.InputBuffer = {}]

\* C14: once the Register exists, no step of PulseClock, PulseLatch, Write,
\* Read, ReadWrite, Fill or Update changes Type, the four pins, the two
\* delays, InvertOutput or OutputBuffer; a step of Write or Fill leaves
\* InputBuffer alone and the call has read no pin; a step of Read leaves the
\* data-out pin alone and has made no gpio_put on it.
C14_Frame ==
    [][(heap # <<>> /\ pc \notin {"idle", "done"}) =>
          /\ Config(heap'[1]) = Config(R)
          /\ XferOf(log') \in {"Write", "Fill"} =>
                /\ heap'[1].InputBuffer = R.InputBuffer
                /\ Count(log', "get") = 0
          /\ XferOf(log') = "Read" =>
                /\ gpio'[R.DataOutGPIO] = gpio[R.DataOutGPIO]
                /\ PutsOn(log', R.DataOutGPIO) = <<>>]_vars

C14_Witness ==
    /\ Ran("Read") /\ call.name = "Read"
    /\ R.InputBuffer # call.In0
    /\ R.OutputBuffer = call.Out0 /\ R.InvertOutput
    /\ gpio[R.DataOutGPIO].level = 1

\* n times (data-out driven to lv(k), clock high, clock low)
DataFrames(n, lv(_)) ==
    [i \in 1..(3 * n) |->
        IF i % 3 = 1 THEN EvPut(R.DataOutGPIO, lv((i - 1) \div 3))
        ELSE IF i % 3 = 2 THEN EvPut(R.ClockGPIO, 1)
        ELSE EvPut(R.ClockGPIO, 0)]

\* n times (clock high, clock low)
ClockFrames(n) ==
    [i \in 1..(2 * n) |-> EvPut(R.ClockGPIO, i % 2)]

\* the pin writes of transfer x, from the width, InvertOutput, OutputBuffer
\* and (for Fill) FillValue alone
ExpectedPuts(x, n, invert, out, fill) ==
    LET bitLv(k) == IF ((n - 1 - k) \in out) # invert THEN 1 ELSE 0
        fillLv(k) == IF fill = 0 THEN 0 ELSE 1
        up == <<EvPut(R.LatchGPIO, 1)>>
        down == <<EvPut(R.LatchGPIO, 0)>>
    IN  CASE x = "Write" -> DataFrames(n, bitLv) \o up \o down
          [] x = "Fill" -> DataFrames(n, fillLv) \o up \o down
          [] x = "Read" -> up \o ClockFrames(n) \o down
          [] x = "ReadWrite" -> DataFrames(n, bitLv) \o up \o ClockFrames(n) \o down

PulsesOf(x) == IF x = "ReadWrite" THEN 2 * WidthBits ELSE WidthBits

\* C15: a completed Read, Write, ReadWrite or Fill of a Register of width W
\* in 1..4 has made exactly 8W, 8W, 16W, 8W clock pulses, and its sequence of
\* gpio_put calls (clock, latch, data-out) is the one determined by the
\* transfer, W, InvertOutput and OutputBuffer (and Fill's argument): it is
\* the same whatever was sampled on data-in and whatever InputBuffer held.
C15_SinglePass ==
    \A x \in {"Read", "Write", "ReadWrite", "Fill"} :
        (Ran(x) /\ R.SizeInOctets \in 1..MAX_SIZEINOCTETS) =>
            /\ Len(PutsOn(XferLog, R.ClockGPIO)) = 2 * PulsesOf(x)
            /\ Puts(XferLog) = ExpectedPuts(x, WidthBits, R.InvertOutput,
                                            PreOut, call.FillValue)
            /\ Count(XferLog, "begin") = 1 /\ Count(XferLog, "end") = 1

C15_Witness ==
    /\ Ran("ReadWrite") /\ call.name = "ReadWrite"
    /\ R.SizeInOctets = 2
    /\ call.In0 # {} /\ R.InputBuffer # {} /\ R.InputBuffer # call.In0
    /\ Len(PutsOn(XferLog, R.ClockGPIO)) = 64

\* the program is inside the sampling phase of Read or ReadWrite
InReadPhase ==
    \/ pc \in {"Read_99", "Read_104", "ReadWrite_134", "ReadWrite_142"}
    \/ /\ pc \in {"PulseClock_66", "PulseClock_68"}
       /\ Head(stack) \in {"Read_104", "ReadWrite_142"}

\* C16: whenever the Register exists and no call is running, the clock pin
\* and the latch pin are low; the clock pin is high only between the two
\* gpio_put calls of PulseClock; the latch pin is high only between the two
\* gpio_put calls of PulseLatch or between the raise and the lower of Read
\* or ReadWrite.
C16_IdleLinesLow ==
    /\ (returned = "Register" /\ pc \in {"idle", "done"}) =>
          /\ gpio[R.ClockGPIO].level = 0
          /\ gpio[R.LatchGPIO].level = 0
    /\ gpio[Wiring.clock].level = 1 => pc = "PulseClock_68"
    /\ gpio[Wiring.latch].level = 1 => (pc = "PulseLatch_60" \/ InReadPhase)

C16_Witness ==
    /\ returned = "Register" /\ pc = "idle"
    /\ prev = "ReadWrite"
    /\ gpio[R.DataOutGPIO].level = 1
    /\ R.InputBuffer # {}

\* the pin writes and the sleeps of the transfer just run, in program order
TimedEvents == SelectSeq(XferLog, LAMBDA e : e[1] \in {"put", "sleep"})

\* every data-out bit is followed by clock high, hold, clock low, hold, and
\* data-out is driven nowhere else
HeldFrames ==
    \A x \in {"Write", "ReadWrite", "Fill"} :
        Ran(x) =>
            LET e == TimedEvents IN
            /\ Len(PutsOn(XferLog, R.DataOutGPIO)) = WidthBits
            /\ \A k \in 0..(WidthBits - 1) :
                  /\ e[5 * k + 1][1] = "put" /\ e[5 * k + 1][2] = R.DataOutGPIO
                  /\ e[5 * k + 2] = EvPut(R.ClockGPIO, 1)
                  /\ e[5 * k + 3] = EvSleep(R.ClockDelayUS)
                  /\ e[5 * k + 4] = EvPut(R.ClockGPIO, 0)
                  /\ e[5 * k + 5] = EvSleep(R.ClockDelayUS)

\* C17: the data-out pin changes level only in a step that finds the clock
\* pin low and leaves it low; in a completed Write, ReadWrite or Fill every
\* gpio_put on data-out is followed, before the next one, by the clock's
\* rising edge, a ClockDelayUS hold, its falling edge and a ClockDelayUS
\* hold.
C17_DataStableAroundClock ==
    /\ []HeldFrames
    /\ [][gpio'[Wiring.dout].level # gpio[Wiring.dout].level =>
             (gpio[Wiring.clock].level = 0 /\ gpio'[Wiring.clock].level = 0)]_vars

C17_Witness ==
    /\ Ran("Write") /\ call.name = "Write"
    /\ R.InvertOutput
    /\ \E i, j \in DOMAIN XferLog :
          /\ i < j
          /\ XferLog[i] = EvPut(R.DataOutGPIO, 0)
          /\ XferLog[j] = EvPut(R.DataOutGPIO, 1)

\* ShiftRegisterCreate, called directly or by GC8BitInit, has filled the
\* struct and has not returned yet
InCreateTransfer ==
    /\ call.name \in {"Create", "GC8BitInit"}
    /\ heap # <<>>
    /\ returned # "Register"

\* every sleep logged so far lasted us microseconds
SleepsAre(us) == \A i \in DOMAIN log : log[i][1] = "sleep" => log[i][2] = us

\* the data-out levels of a transfer that writes `out` non-inverted
PlainLevels(out) ==
    [k \in 1..WidthBits |->
        EvPut(R.DataOutGPIO, IF (WidthBits - k) \in out THEN 1 ELSE 0)]

\* C18: while ShiftRegisterCreate runs its transfer, InvertOutput is false
\* and both delays are 5, and every sleep of the call lasts 5 microseconds; a
\* Register created with Type OUTPUT or HYBRID has driven the bits of
\* InitialValue, not inverted, when Create returns; GC8BitInit's Register has
\* made its 8 samples with 5-microsecond sleeps when GC8BitInit returns with
\* the delays then set to 1, and every later Update of it sleeps 1
\* microsecond.
C18_CreateUsesDefaults ==
    /\ InCreateTransfer =>
          /\ ~R.InvertOutput
          /\ R.ClockDelayUS = SHIFTREGISTER_CLOCKDELAY_US
          /\ R.LatchDelayUS = SHIFTREGISTER_LATCHDELAY_US
    /\ call.name \in {"Create", "GC8BitInit"} => SleepsAre(SHIFTREGISTER_CLOCKDELAY_US)
    /\ (/\ pc = "done" /\ call.name = "Create" /\ returned = "Register"
        /\ R.Type \in {SHIFTREGISTER_OUTPUT, SHIFTREGISTER_HYBRID}
        /\ R.SizeInOctets > 0) =>
          PutsOn(XferLog, R.DataOutGPIO) = PlainLevels(call.InitialValue)
    /\ (pc = "done" /\ call.name = "GC8BitInit") =>
          /\ XferOf(log) = "Read"
          /\ Count(log, "get") = 8
          /\ Count(log, "sleep") = 16
          /\ R.ClockDelayUS = GC8BIT_DELAY /\ R.LatchDelayUS = GC8BIT_DELAY
    /\ (call.name = "Update" /\ R.ClockDelayUS = GC8BIT_DELAY) => SleepsAre(GC8BIT_DELAY)

C18_Witness ==
    /\ pc = "done" /\ call.name = "GC8BitInit"
    /\ returned = "Register"
    /\ R.ClockDelayUS = GC8BIT_DELAY
    /\ Count(log, "sleep") = 16
    /\ R.InputBuffer # {}

\* C19: a ShiftRegisterCreate called with SizeInOctets above 4 changes no
\* pin (no gpio_init, no gpio_set_dir, no gpio_put), allocates nothing and
\* logs no pin event or transfer in any of its steps, and returns NULL: the
\* pins after the call are the pins before it.
C19_FailedCreateNoEffect ==
    /\ [](/\ pc = "done" /\ call.name = "Create"
          /\ call.SizeInOctets > MAX_SIZEINOCTETS
          => returned = "NULL" /\ heap = <<>> /\ log = <<>>)
    /\ [][(call'.name = "Create" /\ call'.SizeInOctets > MAX_SIZEINOCTETS) =>
             /\ gpio' = gpio
             /\ heap' = heap
             /\ log' = <<>>
             /\ inChain' = inChain /\ frozen' = frozen]_vars

C19_Witness ==
    /\ pc = "done" /\ call.name = "Create"
    /\ returned = "NULL"
    /\ call.SizeInOctets = MaxSizeArg /\ call.Type = SHIFTREGISTER_HYBRID
    /\ call.DataInGPIO # 0 /\ call.DataOutGPIO # 0
    /\ gpio = [p \in Pins |-> FreshPin]

====
